---- MODULE Spec2Model ----
(***************************************************************************)
(* Cluster-wide event tail: DebugPortLogThread of                          *)
(* testsuite/cluster_test/src/health/debug_interface_log_tail.rs.          *)
(* spawn_new starts one poller thread per instance of the cluster; each    *)
(* poller polls its node's debug endpoint, decodes the raw events and      *)
(* sends the decoded ValidatorEvents into one mpsc channel.                *)
(***************************************************************************)
EXTENDS Integers, Sequences, FiniteSets, TLC

(***************************************************************************)
(* Bounds of the model.                                                    *)
(***************************************************************************)
\* raw events the nodes hand out, all together, over a whole behaviour
MaxEvents == 3
\* raw events in one GetEvents response
MaxResp == 2
\* width of the timestamp words (i64 / u64 in the program), scaled down
WordBits == 16

TwoPowW == 2 ^ WordBits

(***************************************************************************)
(* The cluster: cluster.instances(), in order.                             *)
(***************************************************************************)
Instances ==
    << [short_hash |-> "node-1", ip |-> "10.0.0.1"],
       [short_hash |-> "node-2", ip |-> "10.0.0.2"] >>

Pollers == 1 .. Len(Instances)

\* variant: every thread carries the first instance of the cluster
short_hash_first(i) == Instances[1].short_hash

short_hash(i) == Instances[i].short_hash

(***************************************************************************)
(* JSON text and serde_json values.  A payload text is either not JSON at  *)
(* all, a JSON scalar, or an object written as a list of members; a value  *)
(* is a string, a number (PosInt, NegInt or Float as serde_json classifies *)
(* it) or null.                                                            *)
(***************************************************************************)
JStr(x)    == [t |-> "string", s |-> x,  n |-> 0]
JPosInt(x) == [t |-> "posint", s |-> "", n |-> x]
JNegInt(x) == [t |-> "negint", s |-> "", n |-> x]
JFloat     == [t |-> "float",  s |-> "", n |-> 0]
JNull      == [t |-> "null",   s |-> "", n |-> 0]

Member(key, val) == [k |-> key, val |-> val]

Garbage        == [wf |-> FALSE, top |-> "none",   members |-> << >>, sc |-> JNull]
ScalarText(v)  == [wf |-> TRUE,  top |-> "scalar", members |-> << >>, sc |-> v]
ObjectText(ms) == [wf |-> TRUE,  top |-> "object", members |-> ms,    sc |-> JNull]

None    == << >>
Some(x) == << x >>

\* serde_json::from_str: Err on text that is not JSON; an object keeps, for
\* each key, the value of its last member with that key.
Keys(ms) == { ms[i].k : i \in 1 .. Len(ms) }

LastIdx(ms, key) ==
    CHOOSE i \in 1 .. Len(ms) :
        /\ ms[i].k = key
        /\ \A j \in (i + 1) .. Len(ms) : ms[j].k # key

from_str(text) ==
    IF ~ text.wf
    THEN [ok |-> FALSE, isObj |-> FALSE, fields |-> << >>, sc |-> JNull]
    ELSE IF text.top = "object"
         THEN [ok |-> TRUE, isObj |-> TRUE,
               fields |-> [key \in Keys(text.members) |->
                              text.members[LastIdx(text.members, key)].val],
               sc |-> JNull]
         ELSE [ok |-> TRUE, isObj |-> FALSE, fields |-> << >>, sc |-> text.sc]

\* Value::get(key): None unless the value is an object having the key.
get(json, key) ==
    IF json.isObj /\ key \in DOMAIN json.fields
    THEN Some(json.fields[key])
    ELSE None

\* Value::as_str / Value::as_u64
as_str(v) == IF v.t = "string" THEN Some(v.s) ELSE None
\* variant: the number is read as a signed integer and converted
as_u64_signed(v) == IF v.t \in { "posint", "negint" } THEN Some(v.n) ELSE None

as_u64(v) == IF v.t = "posint" THEN Some(v.n) ELSE None

(***************************************************************************)
(* Decoder.  A result is a panic (with its message), None, or Some(value). *)
(***************************************************************************)
NoCommit == [commit |-> "", round |-> 0, parent |-> ""]

\* variant: a missing or mistyped round is replaced by 0
parse_commit_default(json) ==
    LET b == get(json, "block_id")
        r == get(json, "round")
        p == get(json, "parent_id")
    IN  IF b = None THEN [tag |-> "panic", msg |-> "No block_id in commit event", event |-> NoCommit]
        ELSE IF as_str(b[1]) = None THEN [tag |-> "panic", msg |-> "block_id is not string", event |-> NoCommit]
        ELSE IF p = None THEN [tag |-> "panic", msg |-> "No parent_id in commit event", event |-> NoCommit]
        ELSE IF as_str(p[1]) = None THEN [tag |-> "panic", msg |-> "parent_id is not string", event |-> NoCommit]
        ELSE [tag |-> "ok", msg |-> "",
              event |-> [commit |-> as_str(b[1])[1],
                         round  |-> IF r = None \/ as_u64(r[1]) = None
                                    THEN 0 ELSE as_u64(r[1])[1],
                         parent |-> as_str(p[1])[1]]]

\* variant: commit and parent are filled from each other's field
parse_commit_swapped(json) ==
    LET b == get(json, "block_id")
        r == get(json, "round")
        p == get(json, "parent_id")
    IN  IF b = None THEN [tag |-> "panic", msg |-> "No block_id in commit event", event |-> NoCommit]
        ELSE IF as_str(b[1]) = None THEN [tag |-> "panic", msg |-> "block_id is not string", event |-> NoCommit]
        ELSE IF r = None THEN [tag |-> "panic", msg |-> "No round in commit event", event |-> NoCommit]
        ELSE IF as_u64(r[1]) = None THEN [tag |-> "panic", msg |-> "round is not u64", event |-> NoCommit]
        ELSE IF p = None THEN [tag |-> "panic", msg |-> "No parent_id in commit event", event |-> NoCommit]
        ELSE IF as_str(p[1]) = None THEN [tag |-> "panic", msg |-> "parent_id is not string", event |-> NoCommit]
        ELSE [tag |-> "ok", msg |-> "",
              event |-> [commit |-> as_str(p[1])[1],
                         round  |-> as_u64(r[1])[1],
                         parent |-> as_str(b[1])[1]]]

parse_commit(json) ==
    LET b == get(json, "block_id")
        r == get(json, "round")
        p == get(json, "parent_id")
    IN  IF b = None THEN [tag |-> "panic", msg |-> "No block_id in commit event", event |-> NoCommit]
        ELSE IF as_str(b[1]) = None THEN [tag |-> "panic", msg |-> "block_id is not string", event |-> NoCommit]
        ELSE IF r = None THEN [tag |-> "panic", msg |-> "No round in commit event", event |-> NoCommit]
        ELSE IF as_u64(r[1]) = None THEN [tag |-> "panic", msg |-> "round is not u64", event |-> NoCommit]
        ELSE IF p = None THEN [tag |-> "panic", msg |-> "No parent_id in commit event", event |-> NoCommit]
        ELSE IF as_str(p[1]) = None THEN [tag |-> "panic", msg |-> "parent_id is not string", event |-> NoCommit]
        ELSE [tag |-> "ok", msg |-> "",
              event |-> [commit |-> as_str(b[1])[1],
                         round  |-> as_u64(r[1])[1],
                         parent |-> as_str(p[1])[1]]]

\* event.get_timestamp() as u64
as_u64_cast(x) == x % TwoPowW

NoValidatorEvent ==
    [validator |-> "", timestamp |-> 0, received_timestamp |-> 0, event |-> NoCommit]

\* variant: an unknown event name is an error
parse_event_strict(self, event, now) ==
    LET json == from_str(event.json)
    IN  IF ~ json.ok
        THEN [tag |-> "panic", msg |-> "Failed to parse json from debug interface",
              ve |-> NoValidatorEvent]
        ELSE IF event.name = "committed"
             THEN LET e == parse_commit(json)
                  IN  IF e.tag = "panic"
                      THEN [tag |-> "panic", msg |-> e.msg, ve |-> NoValidatorEvent]
                      ELSE [tag |-> "some", msg |-> "",
                            ve |-> [validator |-> short_hash(self),
                                    timestamp |-> as_u64_cast(event.timestamp),
                                    received_timestamp |-> now,
                                    event |-> e.event]]
             ELSE [tag |-> "panic", msg |-> "Unknown event", ve |-> NoValidatorEvent]

\* variant: the name is looked at first, the payload of an unknown event is
\* never parsed
parse_event_lazy(self, event, now) ==
    IF event.name # "committed"
    THEN [tag |-> "none", msg |-> "", ve |-> NoValidatorEvent]
    ELSE LET json == from_str(event.json)
         IN  IF ~ json.ok
             THEN [tag |-> "panic", msg |-> "Failed to parse json from debug interface",
                   ve |-> NoValidatorEvent]
             ELSE LET e == parse_commit(json)
                  IN  IF e.tag = "panic"
                      THEN [tag |-> "panic", msg |-> e.msg, ve |-> NoValidatorEvent]
                      ELSE [tag |-> "some", msg |-> "",
                            ve |-> [validator |-> short_hash(self),
                                    timestamp |-> as_u64_cast(event.timestamp),
                                    received_timestamp |-> now,
                                    event |-> e.event]]

parse_event(self, event, now) ==
    LET json == from_str(event.json)
    IN  IF ~ json.ok
        THEN [tag |-> "panic", msg |-> "Failed to parse json from debug interface",
              ve |-> NoValidatorEvent]
        ELSE IF event.name = "committed"
             THEN LET e == parse_commit(json)
                  IN  IF e.tag = "panic"
                      THEN [tag |-> "panic", msg |-> e.msg, ve |-> NoValidatorEvent]
                      ELSE [tag |-> "some", msg |-> "",
                            ve |-> [validator |-> short_hash(self),
                                    timestamp |-> as_u64_cast(event.timestamp),
                                    received_timestamp |-> now,
                                    event |-> e.event]]
             ELSE [tag |-> "none", msg |-> "", ve |-> NoValidatorEvent]

(***************************************************************************)
(* Raw events of the debug interface: name, timestamp (ms, signed), json.  *)
(***************************************************************************)
RawEvent(nm, ts, js) == [name |-> nm, timestamp |-> ts, json |-> js]

GoodA ==
    ObjectText(<< Member("block_id", JStr("abc")), Member("round", JPosInt(5)),
                  Member("parent_id", JStr("xyz")) >>)
GoodB ==
    ObjectText(<< Member("parent_id", JStr("abc")), Member("round", JPosInt(6)),
                  Member("block_id", JStr("def")) >>)
DupRound ==
    ObjectText(<< Member("round", JStr("x")), Member("block_id", JStr("ghi")),
                  Member("round", JPosInt(0)), Member("parent_id", JStr("def")) >>)
NoBlock ==
    ObjectText(<< Member("round", JPosInt(5)), Member("parent_id", JStr("xyz")) >>)
NoRound ==
    ObjectText(<< Member("block_id", JStr("abc")), Member("parent_id", JStr("xyz")) >>)
NoParent ==
    ObjectText(<< Member("block_id", JStr("abc")), Member("round", JPosInt(5)) >>)
NumBlock ==
    ObjectText(<< Member("block_id", JPosInt(7)), Member("round", JPosInt(5)),
                  Member("parent_id", JStr("xyz")) >>)
NegRound ==
    ObjectText(<< Member("block_id", JStr("abc")), Member("round", JNegInt(-1)),
                  Member("parent_id", JStr("xyz")) >>)
FloatRound ==
    ObjectText(<< Member("block_id", JStr("abc")), Member("round", JFloat),
                  Member("parent_id", JStr("xyz")) >>)
StrRound ==
    ObjectText(<< Member("block_id", JStr("abc")), Member("round", JStr("5")),
                  Member("parent_id", JStr("xyz")) >>)
NullParent ==
    ObjectText(<< Member("block_id", JStr("abc")), Member("round", JPosInt(5)),
                  Member("parent_id", JNull) >>)
EmptyObject == ObjectText(<< >>)
ScalarFive == ScalarText(JPosInt(5))

Payloads ==
    { GoodA, GoodB, DupRound, NoBlock, NoRound, NoParent, NumBlock, NegRound,
      FloatRound, StrRound, NullParent, EmptyObject, ScalarFive, Garbage }

Names == { "committed", "heartbeat" }

Timestamps == { 1000, 0, -1 }

\* every raw event the decoder is tried on
AllRawEvents ==
    { RawEvent(nm, ts, js) : nm \in Names, ts \in Timestamps, js \in Payloads }

\* the raw events the nodes of the cluster model hand out
RawEvents ==
    { RawEvent("committed", 1000, GoodA),
      RawEvent("committed", -1, GoodB),
      RawEvent("heartbeat", 1000, EmptyObject),
      RawEvent("heartbeat", 1000, Garbage),
      RawEvent("committed", 1000, NoRound) }

\* unix_timestamp_now()
Now == { 1700 }

(***************************************************************************)
(* State.                                                                  *)
(***************************************************************************)
VARIABLES
    spawner,    \* spawn_new: "running", "returned" or "aborted"
    next_i,     \* index of the instance the loop of spawn_new is at
    log_tail,   \* the returned LogTail: None or Some([pending_messages])
    rx,         \* TRUE while event_receiver has not been dropped
    chan,       \* the queue of the mpsc channel
    pc,         \* per poller: "unspawned", "poll", "decode", "sleep", "panicked"
    resp,       \* per poller: events of resp.events not yet iterated
    dur,        \* per poller: length in ms of the sleep it is in, 0 if in none
    msg,        \* per poller: panic message, "" if none
    recvLog,    \* history: raw events each poller got, in order of receipt
    proc,       \* history: how many of them each poller passed to parse_event
    sent,       \* history: every event_sender.send call, in order
    drained     \* history: number of entries the consumer received

vars == << spawner, next_i, log_tail, rx, chan, pc, resp, dur, msg,
           recvLog, proc, sent, drained >>

spawnVars == << spawner, next_i, log_tail >>
histVars  == << recvLog, proc, sent, drained >>

Init ==
    /\ spawner = "running"
    /\ next_i = 1
    /\ log_tail = None
    /\ rx = TRUE
    /\ chan = << >>
    /\ pc = [n \in Pollers |-> "unspawned"]
    /\ resp = [n \in Pollers |-> << >>]
    /\ dur = [n \in Pollers |-> 0]
    /\ msg = [n \in Pollers |-> ""]
    /\ recvLog = [n \in Pollers |-> << >>]
    /\ proc = [n \in Pollers |-> 0]
    /\ sent = << >>
    /\ drained = 0

(***************************************************************************)
(* spawn_new                                                               *)
(***************************************************************************)
\* one iteration of the loop: the thread of instance next_i is spawned
SpawnThread ==
    /\ spawner = "running"
    /\ next_i <= Len(Instances)
    /\ pc' = [pc EXCEPT ![next_i] = "poll"]
    /\ next_i' = next_i + 1
    /\ UNCHANGED << spawner, log_tail, rx, chan, resp, dur, msg, histVars >>

\* thread::Builder::spawn returns Err: expect panics, spawn_new unwinds and
\* drops event_receiver
SpawnFail ==
    /\ spawner = "running"
    /\ next_i <= Len(Instances)
    /\ spawner' = "aborted"
    /\ rx' = FALSE
    /\ chan' = << >>
    /\ UNCHANGED << next_i, log_tail, pc, resp, dur, msg, histVars >>

\* the loop is over: LogTail { event_receiver, pending_messages: 0 }
SpawnReturn ==
    /\ spawner = "running"
    /\ next_i > Len(Instances)
    /\ spawner' = "returned"
    /\ log_tail' = Some([pending_messages |-> 0])
    /\ UNCHANGED << next_i, rx, chan, pc, resp, dur, msg, histVars >>

(***************************************************************************)
(* run                                                                     *)
(***************************************************************************)
\* variant: a failed poll ends the poller
PollErr_giveup(n) ==
    /\ pc[n] = "poll"
    /\ pc' = [pc EXCEPT ![n] = "panicked"]
    /\ msg' = [msg EXCEPT ![n] = "Failed to get events"]
    /\ UNCHANGED << spawnVars, rx, chan, resp, dur, histVars >>

\* variant: a failed poll ends the process, and all pollers with it
PollErr_abort(n) ==
    /\ pc[n] = "poll"
    /\ pc' = [m \in Pollers |-> "panicked"]
    /\ resp' = [m \in Pollers |-> << >>]
    /\ dur' = [m \in Pollers |-> 0]
    /\ UNCHANGED << spawnVars, rx, chan, msg, histVars >>

\* get_events_opt returns Err: sleep one second
PollErr(n) ==
    /\ pc[n] = "poll"
    /\ pc' = [pc EXCEPT ![n] = "sleep"]
    /\ dur' = [dur EXCEPT ![n] = 1000]
    /\ UNCHANGED << spawnVars, rx, chan, resp, msg, histVars >>

RECURSIVE SumLen(_, _)
SumLen(f, S) ==
    IF S = {} THEN 0
    ELSE LET x == CHOOSE y \in S : TRUE
         IN  Len(f[x]) + SumLen(f, S \ {x})

\* raw events handed out so far
Handed == SumLen(recvLog, Pollers)

Reverse(q) == [i \in 1 .. Len(q) |-> q[Len(q) + 1 - i]]

\* variant: resp.events is iterated from its end
PollOkFrom_rev(n, evts, budget) ==
    /\ pc[n] = "poll"
    /\ \E m \in 0 .. MaxResp :
          /\ Handed + m <= budget
          /\ \E r \in [1 .. m -> evts] :
                /\ resp' = [resp EXCEPT ![n] = Reverse(r)]
                /\ recvLog' = [recvLog EXCEPT ![n] = recvLog[n] \o r]
    /\ pc' = [pc EXCEPT ![n] = "decode"]
    /\ UNCHANGED << spawnVars, rx, chan, dur, msg, proc, sent, drained >>

\* get_events_opt returns Ok(resp) with resp.events = r drawn from evts
PollOkFrom(n, evts, budget) ==
    /\ pc[n] = "poll"
    /\ \E m \in 0 .. MaxResp :
          /\ Handed + m <= budget
          /\ \E r \in [1 .. m -> evts] :
                /\ resp' = [resp EXCEPT ![n] = r]
                /\ recvLog' = [recvLog EXCEPT ![n] = recvLog[n] \o r]
    /\ pc' = [pc EXCEPT ![n] = "decode"]
    /\ UNCHANGED << spawnVars, rx, chan, dur, msg, proc, sent, drained >>

PollOk(n) == PollOkFrom(n, RawEvents, MaxEvents)

\* event_sender.send(e): queued while the receiver exists, else Err (ignored)
SendRecord(n, ve) == [by |-> n, idx |-> proc[n] + 1, ve |-> ve, ok |-> rx]

\* variant: the loop is left after the first send
DecodeSend_break(n) ==
    /\ pc[n] = "decode"
    /\ resp[n] # << >>
    /\ \E now \in Now :
          LET res == parse_event(n, Head(resp[n]), now)
          IN  /\ res.tag = "some"
              /\ chan' = IF rx THEN Append(chan, res.ve) ELSE chan
              /\ sent' = Append(sent, SendRecord(n, res.ve))
    /\ resp' = [resp EXCEPT ![n] = << >>]
    /\ proc' = [proc EXCEPT ![n] = proc[n] + 1]
    /\ UNCHANGED << spawnVars, rx, pc, dur, msg, recvLog, drained >>

\* variant: the result of send is unwrapped, a failed send panics
DecodeSend_unwrap(n) ==
    /\ pc[n] = "decode"
    /\ resp[n] # << >>
    /\ \E now \in Now :
          LET res == parse_event(n, Head(resp[n]), now)
          IN  /\ res.tag = "some"
              /\ chan' = IF rx THEN Append(chan, res.ve) ELSE chan
              /\ sent' = Append(sent, SendRecord(n, res.ve))
    /\ pc' = IF rx THEN pc ELSE [pc EXCEPT ![n] = "panicked"]
    /\ resp' = [resp EXCEPT ![n] = IF rx THEN Tail(resp[n]) ELSE << >>]
    /\ proc' = [proc EXCEPT ![n] = proc[n] + 1]
    /\ UNCHANGED << spawnVars, rx, dur, msg, recvLog, drained >>

\* variant: every send adds one to the pending count of the handle
DecodeSend_counting(n) ==
    /\ pc[n] = "decode"
    /\ resp[n] # << >>
    /\ \E now \in Now :
          LET res == parse_event(n, Head(resp[n]), now)
          IN  /\ res.tag = "some"
              /\ chan' = IF rx THEN Append(chan, res.ve) ELSE chan
              /\ sent' = Append(sent, SendRecord(n, res.ve))
    /\ log_tail' = IF log_tail = None THEN None
                   ELSE Some([pending_messages |-> log_tail[1].pending_messages + 1])
    /\ resp' = [resp EXCEPT ![n] = Tail(resp[n])]
    /\ proc' = [proc EXCEPT ![n] = proc[n] + 1]
    /\ UNCHANGED << spawner, next_i, rx, pc, dur, msg, recvLog, drained >>

\* variant: the send is made a second time
DecodeSend_twice(n) ==
    /\ pc[n] = "decode"
    /\ resp[n] # << >>
    /\ \E now \in Now :
          LET res == parse_event(n, Head(resp[n]), now)
          IN  /\ res.tag = "some"
              /\ chan' = IF rx THEN chan \o << res.ve, res.ve >> ELSE chan
              /\ sent' = sent \o << SendRecord(n, res.ve), SendRecord(n, res.ve) >>
    /\ resp' = [resp EXCEPT ![n] = Tail(resp[n])]
    /\ proc' = [proc EXCEPT ![n] = proc[n] + 1]
    /\ UNCHANGED << spawnVars, rx, pc, dur, msg, recvLog, drained >>

\* loop body, parse_event returns Some(e): e is sent
DecodeSend(n) ==
    /\ pc[n] = "decode"
    /\ resp[n] # << >>
    /\ \E now \in Now :
          LET res == parse_event(n, Head(resp[n]), now)
          IN  /\ res.tag = "some"
              /\ chan' = IF rx THEN Append(chan, res.ve) ELSE chan
              /\ sent' = Append(sent, SendRecord(n, res.ve))
    /\ resp' = [resp EXCEPT ![n] = Tail(resp[n])]
    /\ proc' = [proc EXCEPT ![n] = proc[n] + 1]
    /\ UNCHANGED << spawnVars, rx, pc, dur, msg, recvLog, drained >>

\* variant: the loop over the response is left at a skipped event
DecodeSkip_break(n) ==
    /\ pc[n] = "decode"
    /\ resp[n] # << >>
    /\ \E now \in Now : parse_event(n, Head(resp[n]), now).tag = "none"
    /\ resp' = [resp EXCEPT ![n] = << >>]
    /\ proc' = [proc EXCEPT ![n] = proc[n] + 1]
    /\ UNCHANGED << spawnVars, rx, chan, pc, dur, msg, recvLog, sent, drained >>

\* loop body, parse_event returns None: nothing is sent
DecodeSkip(n) ==
    /\ pc[n] = "decode"
    /\ resp[n] # << >>
    /\ \E now \in Now : parse_event(n, Head(resp[n]), now).tag = "none"
    /\ resp' = [resp EXCEPT ![n] = Tail(resp[n])]
    /\ proc' = [proc EXCEPT ![n] = proc[n] + 1]
    /\ UNCHANGED << spawnVars, rx, chan, pc, dur, msg, recvLog, sent, drained >>

\* variant: the panic is caught, the loop goes on with the next event
DecodePanic_caught(n) ==
    /\ pc[n] = "decode"
    /\ resp[n] # << >>
    /\ \E now \in Now :
          LET res == parse_event(n, Head(resp[n]), now)
          IN  /\ res.tag = "panic"
              /\ msg' = [msg EXCEPT ![n] = res.msg]
    /\ resp' = [resp EXCEPT ![n] = Tail(resp[n])]
    /\ proc' = [proc EXCEPT ![n] = proc[n] + 1]
    /\ UNCHANGED << spawnVars, rx, chan, pc, dur, recvLog, sent, drained >>

\* variant: the panic ends the process, and all pollers with it
DecodePanic_abort(n) ==
    /\ pc[n] = "decode"
    /\ resp[n] # << >>
    /\ \E now \in Now :
          LET res == parse_event(n, Head(resp[n]), now)
          IN  /\ res.tag = "panic"
              /\ msg' = [msg EXCEPT ![n] = res.msg]
    /\ pc' = [m \in Pollers |-> "panicked"]
    /\ resp' = [m \in Pollers |-> << >>]
    /\ proc' = [proc EXCEPT ![n] = proc[n] + 1]
    /\ UNCHANGED << spawnVars, rx, chan, dur, recvLog, sent, drained >>

\* loop body, parse_event panics: the thread unwinds, resp is dropped
DecodePanic(n) ==
    /\ pc[n] = "decode"
    /\ resp[n] # << >>
    /\ \E now \in Now :
          LET res == parse_event(n, Head(resp[n]), now)
          IN  /\ res.tag = "panic"
              /\ msg' = [msg EXCEPT ![n] = res.msg]
    /\ pc' = [pc EXCEPT ![n] = "panicked"]
    /\ resp' = [resp EXCEPT ![n] = << >>]
    /\ proc' = [proc EXCEPT ![n] = proc[n] + 1]
    /\ UNCHANGED << spawnVars, rx, chan, dur, recvLog, sent, drained >>

\* variant: the sleep after a response is the one of the Err arm
EndOfResponse_1s(n) ==
    /\ pc[n] = "decode"
    /\ resp[n] = << >>
    /\ pc' = [pc EXCEPT ![n] = "sleep"]
    /\ dur' = [dur EXCEPT ![n] = 1000]
    /\ UNCHANGED << spawnVars, rx, chan, resp, msg, histVars >>

\* variant: run returns after the first response
EndOfResponse_return(n) ==
    /\ pc[n] = "decode"
    /\ resp[n] = << >>
    /\ pc' = [pc EXCEPT ![n] = "exited"]
    /\ UNCHANGED << spawnVars, rx, chan, resp, dur, msg, histVars >>

\* the for loop is over: sleep 200 ms
EndOfResponse(n) ==
    /\ pc[n] = "decode"
    /\ resp[n] = << >>
    /\ pc' = [pc EXCEPT ![n] = "sleep"]
    /\ dur' = [dur EXCEPT ![n] = 200]
    /\ UNCHANGED << spawnVars, rx, chan, resp, msg, histVars >>

\* thread::sleep returns: next iteration of the loop
Sleep(n) ==
    /\ pc[n] = "sleep"
    /\ pc' = [pc EXCEPT ![n] = "poll"]
    /\ dur' = [dur EXCEPT ![n] = 0]
    /\ UNCHANGED << spawnVars, rx, chan, resp, msg, histVars >>

(***************************************************************************)
(* The consumer of the returned LogTail.                                   *)
(***************************************************************************)
Recv ==
    /\ log_tail # None
    /\ rx
    /\ chan # << >>
    /\ chan' = Tail(chan)
    /\ drained' = drained + 1
    /\ UNCHANGED << spawnVars, rx, pc, resp, dur, msg, recvLog, proc, sent >>

DropReceiver ==
    /\ log_tail # None
    /\ rx
    /\ rx' = FALSE
    /\ chan' = << >>
    /\ UNCHANGED << spawnVars, pc, resp, dur, msg, histVars >>

PollerStep(n) ==
    \/ PollErr(n)
    \/ PollOk(n)
    \/ DecodeSend(n)
    \/ DecodeSkip(n)
    \/ DecodePanic(n)
    \/ EndOfResponse(n)
    \/ Sleep(n)

Next ==
    \/ SpawnThread
    \/ SpawnFail
    \/ SpawnReturn
    \/ \E n \in Pollers : PollErr(n)
    \/ \E n \in Pollers : PollOk(n)
    \/ \E n \in Pollers : DecodeSend(n)
    \/ \E n \in Pollers : DecodeSkip(n)
    \/ \E n \in Pollers : DecodePanic(n)
    \/ \E n \in Pollers : EndOfResponse(n)
    \/ \E n \in Pollers : Sleep(n)
    \/ Recv
    \/ DropReceiver

Spec == Init /\ [][Next]_vars

(***************************************************************************)
(* The decoder on every raw event: the same system, with the nodes handing *)
(* out any two raw events of AllRawEvents.                                 *)
(***************************************************************************)
PollOkAny(n) == PollOkFrom(n, AllRawEvents, 2)

DecodeNext ==
    \/ SpawnThread
    \/ SpawnReturn
    \/ \E n \in Pollers : PollErr(n)
    \/ \E n \in Pollers : PollOkAny(n)
    \/ \E n \in Pollers : DecodeSend(n)
    \/ \E n \in Pollers : DecodeSkip(n)
    \/ \E n \in Pollers : DecodePanic(n)
    \/ \E n \in Pollers : EndOfResponse(n)
    \/ \E n \in Pollers : Sleep(n)

DecodeSpec == Init /\ [][DecodeNext]_vars

(***************************************************************************)
(* Vocabulary of the properties, read off the payload text itself.         *)
(***************************************************************************)
\* the payload is a JSON object whose member `key` is of JSON type `type`
\* (of repeated members the last one counts)
HasTyped(js, key, type) ==
    /\ js.wf
    /\ js.top = "object"
    /\ \E i \in 1 .. Len(js.members) :
          /\ js.members[i].k = key
          /\ js.members[i].val.t = type
          /\ \A j \in 1 .. Len(js.members) : js.members[j].k = key => j <= i

MemberOf(js, key) ==
    js.members[CHOOSE i \in 1 .. Len(js.members) :
                  /\ js.members[i].k = key
                  /\ \A j \in 1 .. Len(js.members) : js.members[j].k = key => j <= i].val

CommitFieldsOk(js) ==
    /\ HasTyped(js, "block_id", "string")
    /\ HasTyped(js, "round", "posint")
    /\ HasTyped(js, "parent_id", "string")

WellFormedCommitted(e) == e.name = "committed" /\ CommitFieldsOk(e.json)

\* the raw event behind a send, and the sends made for the i-th raw event of n
RawOf(s) == recvLog[s.by][s.idx]
SendsFor(n, i) == { k \in 1 .. Len(sent) : sent[k].by = n /\ sent[k].idx = i }

\* poller n was terminated by its i-th raw event
KilledBy(n, i) == pc[n] = "panicked" /\ proc[n] = i

OkSent == SelectSeq(sent, LAMBDA s : s.ok)

(***************************************************************************)
(* C1  Every entry of the aggregation channel, in every reachable state,   *)
(* stems from a raw event named "committed" whose payload is JSON with     *)
(* block_id (string), round (u64) and parent_id (string); no send is ever  *)
(* made for an unrecognized or malformed raw event.                        *)
(***************************************************************************)
ChannelOnlyWellFormed ==
    /\ \A k \in 1 .. Len(sent) : WellFormedCommitted(RawOf(sent[k]))
    /\ \A i \in 1 .. Len(chan) :
          /\ drained + i <= Len(OkSent)
          /\ OkSent[drained + i].ve = chan[i]
          /\ WellFormedCommitted(RawOf(OkSent[drained + i]))

\* an entry is in the channel although a poller has skipped an unknown event
\* and a poller was terminated by a malformed one
ChannelOnlyWellFormedWitness ==
    /\ chan # << >>
    /\ \E n \in Pollers : pc[n] = "panicked"
    /\ \E n \in Pollers : \E i \in 1 .. proc[n] :
          recvLog[n][i].name # "committed" /\ ~ KilledBy(n, i)

(***************************************************************************)
(* C2  parse_event on a well-formed "committed" raw event of node n yields *)
(* a ValidatorEvent with commit = block_id, round = round, parent =        *)
(* parent_id and validator = n's short hash.                               *)
(***************************************************************************)
DecodeCorrect ==
    \A n \in Pollers : \A i \in 1 .. proc[n] :
        LET e == recvLog[n][i]
        IN  WellFormedCommitted(e) =>
              /\ SendsFor(n, i) # {}
              /\ \A k \in SendsFor(n, i) :
                    /\ sent[k].ve.event.commit = MemberOf(e.json, "block_id").s
                    /\ sent[k].ve.event.round  = MemberOf(e.json, "round").n
                    /\ sent[k].ve.event.parent = MemberOf(e.json, "parent_id").s
                    /\ sent[k].ve.validator = Instances[n].short_hash

DecodeCorrectWitness ==
    \E k \in 1 .. Len(sent) :
        /\ RawOf(sent[k]).json = DupRound
        /\ sent[k].by = 2
        /\ sent[k].ve.event.commit = "ghi"

(***************************************************************************)
(* C3  As claimed: a raw event whose name is not "committed" is skipped    *)
(* whatever its payload is: nothing is sent for it and its poller lives.   *)
(***************************************************************************)
UnknownAlwaysSkipped ==
    \A n \in Pollers : \A i \in 1 .. proc[n] :
        recvLog[n][i].name # "committed" =>
            SendsFor(n, i) = {} /\ ~ KilledBy(n, i)

(***************************************************************************)
(* C3, amended  A raw event whose name is not "committed" and whose        *)
(* payload is valid JSON is skipped: nothing is sent for it and its poller *)
(* lives.                                                                  *)
(***************************************************************************)
UnknownValidJsonSkipped ==
    \A n \in Pollers : \A i \in 1 .. proc[n] :
        (recvLog[n][i].name # "committed" /\ recvLog[n][i].json.wf) =>
            SendsFor(n, i) = {} /\ ~ KilledBy(n, i)

\* a poller has skipped an unknown event carrying a complete commit payload
\* and goes on with the rest of the response
UnknownValidJsonSkippedWitness ==
    \E n \in Pollers :
        /\ proc[n] = 1
        /\ recvLog[n][1].name = "heartbeat"
        /\ recvLog[n][1].json = GoodA
        /\ Len(recvLog[n]) = 2
        /\ pc[n] = "decode"

(***************************************************************************)
(* C4  A raw event whose payload is not valid JSON, whatever its name,     *)
(* terminates the poller that received it: nothing is sent for it, and the *)
(* poller is terminated with that event as the last one it looked at.      *)
(***************************************************************************)
InvalidJsonFatal ==
    \A n \in Pollers : \A i \in 1 .. proc[n] :
        ~ recvLog[n][i].json.wf =>
            /\ SendsFor(n, i) = {}
            /\ KilledBy(n, i)
            /\ resp[n] = << >>
            /\ msg[n] = "Failed to parse json from debug interface"

InvalidJsonFatalWitness ==
    /\ \E i \in 1 .. proc[1] :
          recvLog[1][i].name = "heartbeat" /\ ~ recvLog[1][i].json.wf
    /\ \E i \in 1 .. proc[2] :
          recvLog[2][i].name = "committed" /\ ~ recvLog[2][i].json.wf

(***************************************************************************)
(* C5  A "committed" raw event whose JSON payload lacks block_id, round or *)
(* parent_id, or has one of them of the wrong type, aborts the decoding:   *)
(* no ValidatorEvent is sent for it and its poller is terminated.          *)
(***************************************************************************)
BadCommitFatal ==
    \A n \in Pollers : \A i \in 1 .. proc[n] :
        LET e == recvLog[n][i]
        IN  (e.name = "committed" /\ e.json.wf /\ ~ CommitFieldsOk(e.json)) =>
              /\ SendsFor(n, i) = {}
              /\ KilledBy(n, i)
              /\ resp[n] = << >>
              /\ msg[n] \in { "No block_id in commit event", "block_id is not string",
                              "No round in commit event", "round is not u64",
                              "No parent_id in commit event", "parent_id is not string" }

\* one poller was stopped by a missing field, the other by a mistyped one
BadCommitFatalWitness ==
    /\ msg[1] = "No parent_id in commit event"
    /\ msg[2] = "round is not u64"

(***************************************************************************)
(* Fan-in: every node hands out decodable "committed" events only, the     *)
(* consumer keeps the receiver; threads and consumer are scheduled fairly. *)
(***************************************************************************)
GoodEvents == { e \in RawEvents : WellFormedCommitted(e) }

PollOkGood(n) == PollOkFrom(n, GoodEvents, MaxEvents)

FanInStep(n) ==
    \/ PollErr(n)
    \/ PollOkGood(n)
    \/ DecodeSend(n)
    \/ EndOfResponse(n)
    \/ Sleep(n)

FanInNext ==
    \/ SpawnThread
    \/ SpawnReturn
    \/ \E n \in Pollers : PollErr(n)
    \/ \E n \in Pollers : PollOkGood(n)
    \/ \E n \in Pollers : DecodeSend(n)
    \/ \E n \in Pollers : EndOfResponse(n)
    \/ \E n \in Pollers : Sleep(n)
    \/ Recv

FanInSpec ==
    /\ Init
    /\ [][FanInNext]_vars
    /\ WF_vars(SpawnThread)
    /\ WF_vars(SpawnReturn)
    /\ \A n \in Pollers : WF_vars(FanInStep(n))
    /\ WF_vars(Recv)

(***************************************************************************)
(* C6  With every node handing out decodable committed events only, under  *)
(* fair scheduling of pollers and consumer, every event handed out is      *)
(* eventually drained: the number of drained events never exceeds the      *)
(* number handed out by all nodes and eventually equals it for good.       *)
(***************************************************************************)
FanInComplete ==
    /\ [](drained <= Handed)
    /\ <>[](drained = Handed)

\* the consumer has drained events of both nodes
FanInCompleteWitness ==
    /\ drained >= 2
    /\ chan = << >>
    /\ drained = Handed
    /\ \A n \in Pollers : \E k \in 1 .. Len(sent) : sent[k].by = n

(***************************************************************************)
(* C7  Per-node FIFO: the sends of poller n are, in order, the decodable   *)
(* committed events n received (poll after poll and, within a response, in *)
(* response order), and the entries of n in the channel are the last of    *)
(* these sends, in that order.                                             *)
(***************************************************************************)
SentBy(n) == SelectSeq(sent, LAMBDA s : s.by = n)

DecodableOf(n) == SelectSeq(SubSeq(recvLog[n], 1, proc[n]), WellFormedCommitted)

ChanOf(n) == SelectSeq(chan, LAMBDA v : v.validator = Instances[n].short_hash)

Matches(ve, n, e) ==
    /\ ve.validator = Instances[n].short_hash
    /\ ve.event.commit = MemberOf(e.json, "block_id").s
    /\ ve.event.round = MemberOf(e.json, "round").n
    /\ ve.event.parent = MemberOf(e.json, "parent_id").s

PerNodeFifo ==
    \A n \in Pollers :
        LET g == SentBy(n)
            d == DecodableOf(n)
            c == ChanOf(n)
            o == SelectSeq(g, LAMBDA s : s.ok)
        IN  /\ Len(g) = Len(d)
            /\ \A j \in 1 .. Len(g) : Matches(g[j].ve, n, d[j])
            /\ \A j \in 1 .. Len(g) : \A k \in 1 .. Len(g) :
                  j < k => g[j].idx < g[k].idx
            /\ Len(c) <= Len(o)
            /\ \A j \in 1 .. Len(c) : c[j] = o[Len(o) - Len(c) + j].ve

\* two different entries of one node in the channel, one of the other node
\* between them
PerNodeFifoWitness ==
    /\ Len(chan) = 3
    /\ chan[1].validator = chan[3].validator
    /\ chan[1].validator # chan[2].validator
    /\ chan[1].event # chan[3].event

(***************************************************************************)
(* Isolation: the node of the first instance is unreachable for ever, the  *)
(* other nodes hand out events no poller dies of.                          *)
(***************************************************************************)
Down == CHOOSE n \in Pollers : \A m \in Pollers : n <= m

Healthy == Pollers \ { Down }

NonFatalEvents ==
    { e \in RawEvents : e.json.wf /\ (e.name = "committed" => CommitFieldsOk(e.json)) }

PollOkHealthy(n) == PollOkFrom(n, NonFatalEvents, MaxEvents)

IsoStep(n) ==
    \/ PollErr(n)
    \/ (n \in Healthy /\ PollOkHealthy(n))
    \/ DecodeSend(n)
    \/ DecodeSkip(n)
    \/ EndOfResponse(n)
    \/ Sleep(n)

IsoNext ==
    \/ SpawnThread
    \/ SpawnReturn
    \/ \E n \in Pollers : PollErr(n)
    \/ \E n \in Healthy : PollOkHealthy(n)
    \/ \E n \in Pollers : DecodeSend(n)
    \/ \E n \in Pollers : DecodeSkip(n)
    \/ \E n \in Pollers : EndOfResponse(n)
    \/ \E n \in Pollers : Sleep(n)

IsolationSpec ==
    /\ Init
    /\ [][IsoNext]_vars
    /\ WF_vars(SpawnThread)
    /\ WF_vars(SpawnReturn)
    /\ \A n \in Pollers : WF_vars(IsoStep(n))

(***************************************************************************)
(* C8  While one node fails every poll for ever, every other poller is     *)
(* started, always has a step to take whatever the failing poller is       *)
(* doing, and every decodable event it receives eventually is in the       *)
(* channel.                                                                *)
(***************************************************************************)
DecodableGot(n) == Len(SelectSeq(recvLog[n], WellFormedCommitted))

HealthyDeliver ==
    /\ \A n \in Healthy : <>(pc[n] # "unspawned")
    /\ [](\A n \in Healthy : pc[n] # "unspawned" => ENABLED IsoStep(n))
    /\ \A n \in Healthy : \A k \in 1 .. MaxEvents :
          (DecodableGot(n) >= k) ~> (Len(ChanOf(n)) >= k)

\* the failing poller sleeps after a failure while the channel holds two
\* entries of a healthy one
HealthyDeliverWitness ==
    /\ pc[Down] = "sleep"
    /\ dur[Down] = 1000
    /\ \E n \in Healthy : Len(ChanOf(n)) >= 2

(***************************************************************************)
(* C9  A decode-fatal error terminates only the poller that decoded it:    *)
(* the step that terminates a poller changes no other poller, and leaves   *)
(* the channel and its receiver as they are; every poller that is started  *)
(* and not terminated has a step to take.                                  *)
(***************************************************************************)
PanicIsolated ==
    /\ [](\A m \in Pollers :
            pc[m] \notin { "unspawned", "panicked" } => ENABLED PollerStep(m))
    /\ [][\A n \in Pollers :
            (pc[n] # "panicked" /\ pc'[n] = "panicked") =>
                /\ \A m \in Pollers \ { n } :
                      /\ pc'[m] = pc[m]
                      /\ resp'[m] = resp[m]
                      /\ dur'[m] = dur[m]
                      /\ msg'[m] = msg[m]
                /\ rx' = rx
                /\ chan' = chan]_vars

\* one poller is terminated, another one decodes a response, the channel is
\* open and holds an entry
PanicIsolatedWitness ==
    \E n \in Pollers : \E m \in Pollers :
        /\ pc[n] = "panicked"
        /\ pc[m] = "decode"
        /\ resp[m] # << >>
        /\ rx
        /\ chan # << >>

(***************************************************************************)
(* C10  A failed poll never terminates the poller and sends nothing: the   *)
(* poller goes to sleep for one second, leaving channel, sends and panic   *)
(* message alone, and a sleeping poller can always wake up, to nothing but *)
(* another poll; a poller at its poll goes nowhere but to the sleep or to  *)
(* the decoding of a response.                                             *)
(***************************************************************************)
TransportFailureRetried ==
    /\ [](\A n \in Pollers : pc[n] = "sleep" => ENABLED Sleep(n))
    /\ [](\A n \in Pollers : pc[n] = "poll" => ENABLED PollErr(n))
    /\ [][\A n \in Pollers :
            /\ (pc[n] = "poll" /\ pc'[n] = "sleep") =>
                  /\ dur'[n] = 1000
                  /\ chan' = chan
                  /\ sent' = sent
                  /\ recvLog' = recvLog
                  /\ msg' = msg
            /\ pc[n] = "poll" => pc'[n] \in { "poll", "sleep", "decode" }
            /\ pc[n] = "sleep" => pc'[n] \in { "sleep", "poll" }]_vars

\* a poller sleeps after a failed poll, having received events before
TransportFailureRetriedWitness ==
    \E n \in Pollers :
        /\ pc[n] = "sleep"
        /\ dur[n] = 1000
        /\ recvLog[n] # << >>

\* a raw event the decoder panics on
DecodeFatal(e) ==
    \/ ~ e.json.wf
    \/ (e.name = "committed" /\ ~ CommitFieldsOk(e.json))

(***************************************************************************)
(* C11  As claimed: the poller has no terminal state, every spawned poller *)
(* has a step to take in every reachable state.                            *)
(***************************************************************************)
NoTerminalState ==
    \A n \in Pollers : pc[n] # "unspawned" => ENABLED PollerStep(n)

(***************************************************************************)
(* C11, amended  The only terminal state of a poller is the one a          *)
(* decode-fatal raw event puts it in: every spawned poller either has a    *)
(* step to take or was terminated by the last raw event it looked at, a    *)
(* decode-fatal one.                                                       *)
(***************************************************************************)
OnlyDecodeFatalTerminates ==
    \A n \in Pollers :
        pc[n] # "unspawned" =>
            \/ ENABLED PollerStep(n)
            \/ /\ pc[n] = "panicked"
               /\ proc[n] >= 1
               /\ DecodeFatal(recvLog[n][proc[n]])

\* one poller is terminated, another one sleeps after a response it has
\* gone through
OnlyDecodeFatalTerminatesWitness ==
    \E n \in Pollers : \E m \in Pollers :
        /\ pc[n] = "panicked"
        /\ pc[m] = "sleep"
        /\ dur[m] = 200
        /\ proc[m] >= 1

(***************************************************************************)
(* C12  Spawning is all-or-nothing: when spawn_new has returned, a poller  *)
(* has been started for every instance and the handle exists; when it has  *)
(* aborted, no poller has been started for any instance.                   *)
(***************************************************************************)
SpawnAllOrNothing ==
    /\ spawner = "returned" =>
          log_tail # None /\ \A n \in Pollers : pc[n] # "unspawned"
    /\ spawner = "aborted" =>
          log_tail = None /\ \A n \in Pollers : pc[n] = "unspawned"

(***************************************************************************)
(* C13  For every raw event a poller has decoded successfully there is     *)
(* exactly one send; while the receiver exists every send has put exactly  *)
(* one entry into the stream, which is in the channel or was drained.      *)
(***************************************************************************)
SentExactlyOnce ==
    /\ \A n \in Pollers : \A i \in 1 .. proc[n] :
          WellFormedCommitted(recvLog[n][i]) =>
              /\ Cardinality(SendsFor(n, i)) = 1
              /\ rx => \A k \in SendsFor(n, i) : sent[k].ok
    /\ rx => Len(chan) + drained = Len(sent)

\* a poller got the same committed event twice and has sent it twice, once
\* for each; the consumer has drained one of the entries
SentExactlyOnceWitness ==
    \E n \in Pollers :
        /\ proc[n] = 2
        /\ recvLog[n][1] = recvLog[n][2]
        /\ WellFormedCommitted(recvLog[n][1])
        /\ Len(SentBy(n)) = 2
        /\ rx
        /\ drained = 1
        /\ Len(chan) = 1

(***************************************************************************)
(* C14  The handle exists exactly when spawn_new has returned; its pending *)
(* count is 0 then, and no step of spawner, pollers or channel changes it. *)
(***************************************************************************)
PendingUntouched ==
    /\ [](log_tail # None <=> spawner = "returned")
    /\ [](log_tail # None => log_tail[1].pending_messages = 0)
    /\ [][log_tail # None => log_tail' = log_tail]_vars

\* the handle is there, pollers have sent, one has been terminated, the
\* consumer has drained an entry
PendingUntouchedWitness ==
    /\ log_tail # None
    /\ log_tail[1].pending_messages = 0
    /\ Len(sent) >= 2
    /\ drained >= 1
    /\ \E n \in Pollers : pc[n] = "panicked"
    /\ \E n \in Pollers : pc[n] = "sleep"

(***************************************************************************)
(* C15  Once the receiver is dropped it stays dropped and the channel      *)
(* holds nothing; a send made then fails and is made once only, and its    *)
(* poller stays in the loop over the response with the rest of it; every   *)
(* poller that is not terminated still has a step to take, and the sleep   *)
(* after a response is one of 200 ms.                                      *)
(***************************************************************************)
SendFailureIgnored ==
    /\ [](~ rx => chan = << >>)
    /\ [](\A n \in Pollers :
            (~ rx /\ pc[n] \in { "poll", "decode", "sleep" }) =>
                ENABLED PollerStep(n))
    /\ [][~ rx => ~ rx']_vars
    /\ [][(~ rx /\ sent' # sent) =>
            /\ Len(sent') = Len(sent) + 1
            /\ SubSeq(sent', 1, Len(sent)) = sent
            /\ ~ sent'[Len(sent')].ok
            /\ chan' = chan
            /\ LET n == sent'[Len(sent')].by
               IN  /\ pc[n] = "decode"
                   /\ pc'[n] = "decode"
                   /\ resp'[n] = Tail(resp[n])]_vars
    /\ [][\A n \in Pollers :
            (~ rx /\ pc[n] = "decode" /\ pc'[n] = "sleep") => dur'[n] = 200]_vars

\* the consumer has dropped the receiver; a poller's send for the first of
\* its events has failed, it has gone through a second event and sleeps
SendFailureIgnoredWitness ==
    /\ ~ rx
    /\ log_tail # None
    /\ \E k \in 1 .. Len(sent) :
          /\ ~ sent[k].ok
          /\ sent[k].idx = 1
          /\ proc[sent[k].by] = 2
          /\ pc[sent[k].by] = "sleep"
          /\ dur[sent[k].by] = 200

(***************************************************************************)
(* C16  Between two polls of a poller lies exactly one sleep: a poller     *)
(* comes to a poll from a sleep only (or from its start), leaves a sleep   *)
(* for a poll only, and enters a sleep either straight from a failed poll, *)
(* for 1000 ms, or from the end of a response, for 200 ms; the length of a *)
(* sleep does not change while it lasts.                                   *)
(***************************************************************************)
OneSleepBetweenPolls ==
    /\ [](\A n \in Pollers : pc[n] = "sleep" => dur[n] \in { 200, 1000 })
    /\ [][\A n \in Pollers :
            /\ (pc[n] # "poll" /\ pc'[n] = "poll") =>
                  pc[n] \in { "sleep", "unspawned" }
            /\ (pc[n] = "poll" /\ pc'[n] # "poll") =>
                  pc'[n] \in { "sleep", "decode" }
            /\ (pc[n] # "sleep" /\ pc'[n] = "sleep") =>
                  \/ pc[n] = "poll" /\ dur'[n] = 1000
                  \/ pc[n] = "decode" /\ resp[n] = << >> /\ dur'[n] = 200
            /\ (pc[n] = "sleep" /\ pc'[n] = "sleep") => dur'[n] = dur[n]
            /\ (pc[n] = "sleep" /\ pc'[n] # "sleep") => pc'[n] = "poll"
            /\ pc[n] = "decode" => pc'[n] \in { "decode", "sleep", "panicked" }]_vars

\* one poller sleeps 200 ms after a response of which it skipped every
\* event, the other sleeps 1000 ms after a failed poll
OneSleepBetweenPollsWitness ==
    \E n \in Pollers : \E m \in Pollers :
        /\ pc[n] = "sleep"
        /\ dur[n] = 200
        /\ proc[n] >= 1
        /\ SentBy(n) = << >>
        /\ pc[m] = "sleep"
        /\ dur[m] = 1000

\* nothing of what poller n received is lost: in the loop over a response the
\* events not yet looked at are all the later ones, outside of it none is left
RestIntact(n) ==
    /\ pc[n] = "decode" =>
          resp[n] = SubSeq(recvLog[n], proc[n] + 1, Len(recvLog[n]))
    /\ pc[n] \in { "sleep", "poll" } => proc[n] = Len(recvLog[n])

\* the events poller n looked at after its i-th one: the decodable ones were
\* sent, in the order of their receipt
LaterSentInOrder(n, i) ==
    \A j \in (i + 1) .. proc[n] :
        WellFormedCommitted(recvLog[n][j]) =>
            /\ SendsFor(n, j) # {}
            /\ \A k \in (j + 1) .. proc[n] :
                  \A a \in SendsFor(n, j) : \A b \in SendsFor(n, k) : a < b

(***************************************************************************)
(* C17  As claimed: an event with a name other than "committed" is skipped *)
(* without effect on the rest: its poller lives, nothing is sent for it,   *)
(* no later event is lost and the later decodable ones are sent in order.  *)
(***************************************************************************)
UnknownNeverDisturbs ==
    \A n \in Pollers : \A i \in 1 .. proc[n] :
        recvLog[n][i].name # "committed" =>
            /\ ~ KilledBy(n, i)
            /\ SendsFor(n, i) = {}
            /\ RestIntact(n)
            /\ LaterSentInOrder(n, i)

(***************************************************************************)
(* C17, amended  An event with a name other than "committed" and a payload *)
(* that is valid JSON is skipped without effect on the rest: its poller is *)
(* not terminated by it, nothing is sent for it, no later event is lost    *)
(* while the poller lives, and the later decodable events the poller gets  *)
(* to are sent in order.                                                   *)
(***************************************************************************)
UnknownValidJsonNeverDisturbs ==
    \A n \in Pollers : \A i \in 1 .. proc[n] :
        (recvLog[n][i].name # "committed" /\ recvLog[n][i].json.wf) =>
            /\ ~ KilledBy(n, i)
            /\ SendsFor(n, i) = {}
            /\ RestIntact(n)
            /\ LaterSentInOrder(n, i)

\* a poller skipped an unknown event, sent the committed event after it and
\* is back at its poll
UnknownValidJsonNeverDisturbsWitness ==
    \E n \in Pollers :
        /\ Len(recvLog[n]) = 2
        /\ proc[n] = 2
        /\ recvLog[n][1].name = "heartbeat"
        /\ WellFormedCommitted(recvLog[n][2])
        /\ SendsFor(n, 2) # {}
        /\ pc[n] = "poll"

(***************************************************************************)
(* C18  The timestamp of every ValidatorEvent sent is the number of        *)
(* milliseconds its raw event reported, whatever that number is: zero,     *)
(* positive or negative.                                                   *)
(***************************************************************************)
TimestampExact ==
    \A k \in 1 .. Len(sent) :
        sent[k].ve.timestamp = RawOf(sent[k]).timestamp

(***************************************************************************)
(* C19  A decode-fatal event cuts the response it is in: it is the last    *)
(* event its poller looks at; the decodable events the poller received     *)
(* before it were all sent, no event at or after it ever is; the step that *)
(* terminates the poller leaves channel and sends alone, and from then on  *)
(* the poller makes no send and no further entry of its node enters the    *)
(* channel.                                                                *)
(***************************************************************************)
FatalCutsResponse ==
    /\ [](\A n \in Pollers : \A i \in 1 .. proc[n] :
            DecodeFatal(recvLog[n][i]) =>
                /\ proc[n] = i
                /\ pc[n] = "panicked"
                /\ resp[n] = << >>
                /\ \A j \in 1 .. (i - 1) :
                      WellFormedCommitted(recvLog[n][j]) => SendsFor(n, j) # {}
                /\ \A k \in 1 .. Len(sent) :
                      sent[k].by = n => sent[k].idx < i)
    /\ [][\A n \in Pollers :
            (pc[n] # "panicked" /\ pc'[n] = "panicked") =>
                chan' = chan /\ sent' = sent]_vars
    /\ [][\A n \in Pollers :
            pc[n] = "panicked" =>
                /\ pc'[n] = "panicked"
                /\ proc'[n] = proc[n]
                /\ recvLog'[n] = recvLog[n]
                /\ SentBy(n)' = SentBy(n)
                /\ Len(ChanOf(n)') <= Len(ChanOf(n))]_vars

\* a poller sent a committed event, then got a response with a decode-fatal
\* event followed by a committed one: its one entry is in the channel, the
\* last event was never looked at
FatalCutsResponseWitness ==
    \E n \in Pollers :
        /\ pc[n] = "panicked"
        /\ Len(recvLog[n]) = 3
        /\ proc[n] = 2
        /\ WellFormedCommitted(recvLog[n][1])
        /\ WellFormedCommitted(recvLog[n][3])
        /\ Len(ChanOf(n)) = 1
        /\ Len(SentBy(n)) = 1

(***************************************************************************)
(* C20  One poller per instance, started in the order of the cluster; the  *)
(* validator of every send and of every channel entry is the short hash of *)
(* the instance whose poller received the raw event the entry was decoded  *)
(* from, and so the short hash of an instance of the cluster.              *)
(***************************************************************************)
AttributedToOwnNode ==
    /\ \A n \in Pollers : pc[n] # "unspawned" <=> n < next_i
    /\ \A k \in 1 .. Len(sent) :
          /\ sent[k].by \in Pollers
          /\ sent[k].idx \in 1 .. Len(recvLog[sent[k].by])
          /\ sent[k].ve.validator = Instances[sent[k].by].short_hash
          /\ Matches(sent[k].ve, sent[k].by, RawOf(sent[k]))
    /\ \A i \in 1 .. Len(chan) :
          /\ chan[i].validator \in { Instances[n].short_hash : n \in Pollers }
          /\ chan[i] = OkSent[drained + i].ve
          /\ chan[i].validator = Instances[OkSent[drained + i].by].short_hash

\* both nodes handed out the same committed event: the channel holds it
\* twice, once under the name of each node
AttributedToOwnNodeWitness ==
    \E i \in 1 .. Len(chan) : \E j \in 1 .. Len(chan) :
        /\ chan[i].event = chan[j].event
        /\ chan[i].validator = "node-1"
        /\ chan[j].validator = "node-2"

====
